---------------------------- MODULE Spec2Model ----------------------------
(***************************************************************************)
(* Model of src/app.py: the transformation pipeline process_files and its  *)
(* helpers (dedupe_semicolon_list, rearrange_attrs_row, monday_of_week,    *)
(* _norm_bol, _find_col_ci).                                               *)
(*                                                                         *)
(* Representation of Python values:                                        *)
(*   - a str is a sequence of one-character strings, "PO" is <<"P","O">>;  *)
(*   - a missing cell (None / NaN / NaT) is NaN == <<"NaN">>;              *)
(*   - a pandas Timestamp is <<"Timestamp", ordinal, minutes>>, ordinal    *)
(*     being the proleptic Gregorian day number (0001-01-01 is day 1) and  *)
(*     minutes the time of day;                                            *)
(*   - a DataFrame is [columns |-> sequence of labels, rows |-> sequence   *)
(*     of functions label -> cell].  Labels of the main frame and of `out` *)
(*     are compared exactly and are TLA+ strings; labels of the DQ frame   *)
(*     go through _find_col_ci and are character sequences.                *)
(***************************************************************************)
EXTENDS Integers, Sequences, FiniteSets, TLC

VARIABLES
    pc,              \* position in process_files / in the helper call
    main_df,         \* argument main_df
    dq_df,           \* argument dq_df (NoFrame when None); mutated at 141-142
    keep_audit_col,  \* argument keep_audit_col
    out,             \* local `out`, the returned frame
    agg_nats,        \* local agg_nats
    updated_count,   \* local updated_count
    dq_lookup,       \* local dq_lookup: sequence of <<key, value>>, keys unique
    raised,          \* the exception process_files raised, or "none"
    arg,             \* argument of a direct helper call
    ret              \* result of a direct helper call

vars == <<pc, main_df, dq_df, keep_audit_col, out, agg_nats, updated_count,
          dq_lookup, raised, arg, ret>>

(***************************************************************************)
(* Bounds of the model.                                                    *)
(***************************************************************************)
MaxRows == 2     \* rows of a main frame in the multi-row input families
MaxDq == 2       \* rows of a DQ frame in the lookup input family
MaxLen == 6      \* length of the strings given to dedupe_semicolon_list

(***************************************************************************)
(* Python values.                                                          *)
(***************************************************************************)
NaN == <<"NaN">>

isna(v) == v = NaN

Timestamp(ord, mins) == <<"Timestamp", ord, mins>>

IsTimestamp(v) == Len(v) = 3 /\ v[1] = "Timestamp"

\* isinstance(value, str)
IsStr(v) == ~isna(v) /\ ~IsTimestamp(v)

(***************************************************************************)
(* str methods, character by character.                                    *)
(***************************************************************************)
UpperChars == <<"A","B","C","D","E","F","G","H","I","J","K","L","M",
                "N","O","P","Q","R","S","T","U","V","W","X","Y","Z">>
LowerChars == <<"a","b","c","d","e","f","g","h","i","j","k","l","m",
                "n","o","p","q","r","s","t","u","v","w","x","y","z">>

IsSpace(c) == c \in {" ", "\t"}

lower_char(c) ==
    IF \E i \in DOMAIN UpperChars : UpperChars[i] = c
    THEN LowerChars[CHOOSE i \in DOMAIN UpperChars : UpperChars[i] = c]
    ELSE c

upper_char(c) ==
    IF \E i \in DOMAIN LowerChars : LowerChars[i] = c
    THEN UpperChars[CHOOSE i \in DOMAIN LowerChars : LowerChars[i] = c]
    ELSE c

str_lower(s) == [i \in 1..Len(s) |-> lower_char(s[i])]

str_upper(s) == [i \in 1..Len(s) |-> upper_char(s[i])]

\* str.casefold(): on the letters of the model it is str.lower()
str_casefold(s) == [i \in 1..Len(s) |-> lower_char(s[i])]

RECURSIVE str_lstrip(_)
str_lstrip(s) ==
    IF s # <<>> /\ IsSpace(Head(s)) THEN str_lstrip(Tail(s)) ELSE s

RECURSIVE str_rstrip(_)
str_rstrip(s) ==
    IF s # <<>> /\ IsSpace(s[Len(s)])
    THEN str_rstrip(SubSeq(s, 1, Len(s) - 1))
    ELSE s

str_strip(s) == str_rstrip(str_lstrip(s))

str_replace(s, old, new) == [i \in 1..Len(s) |-> IF s[i] = old THEN new ELSE s[i]]

\* s.split(sep) for a one-character sep: keeps empty pieces
RECURSIVE str_split(_, _)
str_split(s, sep) ==
    IF \A i \in 1..Len(s) : s[i] # sep
    THEN <<s>>
    ELSE LET i == CHOOSE j \in 1..Len(s) :
                     s[j] = sep /\ \A k \in 1..(j - 1) : s[k] # sep
         IN  <<SubSeq(s, 1, i - 1)>> \o str_split(SubSeq(s, i + 1, Len(s)), sep)

\* s.split(): on runs of whitespace, no empty pieces
RECURSIVE str_split_ws(_)
str_split_ws(s) ==
    LET t == str_lstrip(s)
    IN  IF t = <<>>
        THEN <<>>
        ELSE IF \A i \in 1..Len(t) : ~IsSpace(t[i])
             THEN <<t>>
             ELSE LET i == CHOOSE j \in 1..Len(t) :
                               IsSpace(t[j]) /\ \A k \in 1..(j - 1) : ~IsSpace(t[k])
                  IN  <<SubSeq(t, 1, i - 1)>> \o str_split_ws(SubSeq(t, i, Len(t)))

\* sep.join(parts)
RECURSIVE str_join(_, _)
str_join(sep, parts) ==
    IF parts = <<>> THEN <<>>
    ELSE IF Len(parts) = 1 THEN parts[1]
    ELSE parts[1] \o sep \o str_join(sep, Tail(parts))

\* astype(str) of a cell: a missing cell becomes the text "nan" ("None" for a
\* None in an object column; neither reads "not identified")
astype_str(v) == IF isna(v) THEN <<"n","a","n">> ELSE v

(***************************************************************************)
(* Text constants of the source.                                           *)
(***************************************************************************)
S_BusinessUnit == <<"B","u","s","i","n","e","s","s"," ","U","n","i","t">>
S_PO == <<"P","O">>
S_TMSTOPID == <<"T","M","S","T","O","P","I","D">>
S_OrderType == <<"O","r","d","e","r"," ","T","y","p","e">>
S_GTMSLOAT == <<"G","T","M","S","L","O","A","T">>
S_BillOfLading == <<"B","i","l","l"," ","o","f"," ","L","a","d","i","n","g">>
S_TrackingError == <<"T","r","a","c","k","i","n","g"," ","E","r","r","o","r">>
S_NotIdentified == <<"n","o","t"," ","i","d","e","n","t","i","f","i","e","d">>
S_BolKey == <<"_","_","B","O","L","_","K","E","Y","_","_">>
S_TrackingErrorCol == <<"_","_","T","R","A","C","K","I","N","G","_","E","R","R","O","R","_","_">>

(***************************************************************************)
(* dedupe_semicolon_list                                                   *)
(***************************************************************************)
\* [p.strip() for p in parts if p.strip()]
RECURSIVE StripNonEmpty(_)
StripNonEmpty(parts) ==
    IF parts = <<>> THEN <<>>
    ELSE LET p == str_strip(Head(parts))
         IN  IF p # <<>> THEN <<p>> \o StripNonEmpty(Tail(parts))
             ELSE StripNonEmpty(Tail(parts))

\* list(dict.fromkeys(parts)): first occurrences, in order
RECURSIVE fromkeys(_)
fromkeys(parts) ==
    IF parts = <<>> THEN <<>>
    ELSE LET init == fromkeys(SubSeq(parts, 1, Len(parts) - 1))
             last == parts[Len(parts)]
         IN  IF \E i \in 1..Len(init) : init[i] = last THEN init
             ELSE Append(init, last)

dedupe_nounique(value) ==
    IF isna(value) THEN value
    ELSE IF IsStr(value)
    THEN LET v1 == str_replace(value, ",", ";")
             v2 == str_replace(v1, ";", ";")
             parts == StripNonEmpty(str_split(v2, ";"))
         IN  str_join(<<";">>, parts)
    ELSE value

dedupe_semicolon_list(value) ==
    IF isna(value) THEN value
    ELSE IF IsStr(value)
    THEN LET v1 == str_replace(value, ",", ";")
             v2 == str_replace(v1, ";", ";")
             parts == StripNonEmpty(str_split(v2, ";"))
             unique == fromkeys(parts)
         IN  str_join(<<";">>, unique)
    ELSE value

(***************************************************************************)
(* rearrange_attrs_row                                                     *)
(***************************************************************************)
EXPECTED_ATTR_MAPPING ==
    (S_BusinessUnit :> "Attr1") @@ (S_PO :> "Attr2") @@ (S_TMSTOPID :> "Attr3")
    @@ (S_OrderType :> "Attr4") @@ (S_GTMSLOAT :> "Attr5")

AttrPrefix == <<"Attr1", "Attr2", "Attr3", "Attr4", "Attr5">>
AttrNameCol == <<"Attr1 Name", "Attr2 Name", "Attr3 Name", "Attr4 Name", "Attr5 Name">>
AttrValueCol == <<"Attr1 Value", "Attr2 Value", "Attr3 Value", "Attr4 Value", "Attr5 Value">>
AttrCols == {AttrNameCol[i] : i \in 1..5} \cup {AttrValueCol[i] : i \in 1..5}

\* f'{target} Name' and f'{target} Value'
NameOf(target) == AttrNameCol[CHOOSE k \in 1..5 : AttrPrefix[k] = target]
ValueOf(target) == AttrValueCol[CHOOSE k \in 1..5 : AttrPrefix[k] = target]

\* row.get(label): None when the row has no such label
row_get(row, label) == IF label \in DOMAIN row THEN row[label] ELSE NaN

\* the loop body of lines 70-75 for index i, on the dict built so far
AttrStep(row, o, i) ==
    LET name == row_get(row, AttrNameCol[i])
        value == row_get(row, AttrValueCol[i])
    IN  IF ~isna(name) /\ name \in DOMAIN EXPECTED_ATTR_MAPPING
        THEN LET target == EXPECTED_ATTR_MAPPING[name]
             IN  [o EXCEPT ![NameOf(target)] = name, ![ValueOf(target)] = value]
        ELSE o

RECURSIVE AttrLoop(_, _, _)
AttrLoop(row, o, i) ==
    IF i > 5 THEN o ELSE AttrLoop(row, AttrStep(row, o, i), i + 1)

\* the same loop keeping the first pair that reaches a slot
RECURSIVE AttrLoopFirstWins(_, _, _)
AttrLoopFirstWins(row, o, i) ==
    IF i < 1 THEN o ELSE AttrLoopFirstWins(row, AttrStep(row, o, i), i - 1)

rearrange_first_wins(row) == AttrLoopFirstWins(row, [c \in AttrCols |-> <<>>], 5)

rearrange_attrs_row(row) == AttrLoop(row, [c \in AttrCols |-> <<>>], 1)

(***************************************************************************)
(* pd.to_datetime(..., errors='coerce') and monday_of_week                 *)
(***************************************************************************)
DigitChars == <<"0","1","2","3","4","5","6","7","8","9">>

IsDigit(c) == \E i \in DOMAIN DigitChars : DigitChars[i] = c

DigitVal(c) == (CHOOSE i \in DOMAIN DigitChars : DigitChars[i] = c) - 1

AllDigits(s) == \A i \in 1..Len(s) : IsDigit(s[i])

RECURSIVE ToInt(_)
ToInt(s) == IF s = <<>> THEN 0
            ELSE 10 * ToInt(SubSeq(s, 1, Len(s) - 1)) + DigitVal(s[Len(s)])

IsLeap(y) == y % 4 = 0 /\ (y % 100 # 0 \/ y % 400 = 0)

DaysInMonth(y, m) ==
    IF m = 2 THEN (IF IsLeap(y) THEN 29 ELSE 28)
    ELSE IF m \in {4, 6, 9, 11} THEN 30 ELSE 31

RECURSIVE DaysBeforeMonth(_, _)
DaysBeforeMonth(y, m) ==
    IF m = 1 THEN 0 ELSE DaysBeforeMonth(y, m - 1) + DaysInMonth(y, m - 1)

DaysBeforeYear(y) ==
    LET p == y - 1 IN p * 365 + (p \div 4) - (p \div 100) + (p \div 400)

\* proleptic Gregorian ordinal of y-m-d
Ordinal(y, m, d) == DaysBeforeYear(y) + DaysBeforeMonth(y, m) + d

\* "YYYY-MM-DD" naming a day of the calendar
IsIsoDate(s) ==
    /\ Len(s) = 10
    /\ s[5] = "-" /\ s[8] = "-"
    /\ AllDigits(SubSeq(s, 1, 4)) /\ AllDigits(SubSeq(s, 6, 7))
    /\ AllDigits(SubSeq(s, 9, 10))
    /\ LET y == ToInt(SubSeq(s, 1, 4))
           m == ToInt(SubSeq(s, 6, 7))
           d == ToInt(SubSeq(s, 9, 10))
       IN  y >= 1 /\ m \in 1..12 /\ d >= 1 /\ d <= DaysInMonth(y, m)

\* "HH:MM" naming a time of day
IsIsoTime(s) ==
    /\ Len(s) = 5
    /\ s[3] = ":"
    /\ AllDigits(SubSeq(s, 1, 2)) /\ AllDigits(SubSeq(s, 4, 5))
    /\ ToInt(SubSeq(s, 1, 2)) <= 23 /\ ToInt(SubSeq(s, 4, 5)) <= 59

IsoOrdinal(s) ==
    Ordinal(ToInt(SubSeq(s, 1, 4)), ToInt(SubSeq(s, 6, 7)), ToInt(SubSeq(s, 9, 10)))

\* one element of pd.to_datetime(series, errors='coerce'), for the texts the
\* model feeds it: ISO dates, ISO dates with a time of day, and texts that
\* are no date.  Whatever does not parse is coerced to NaT.
to_datetime(v) ==
    IF isna(v) THEN NaN
    ELSE IF IsIsoDate(v) THEN Timestamp(IsoOrdinal(v), 0)
    ELSE IF Len(v) = 16 /\ IsIsoDate(SubSeq(v, 1, 10)) /\ v[11] = " "
            /\ IsIsoTime(SubSeq(v, 12, 16))
    THEN Timestamp(IsoOrdinal(SubSeq(v, 1, 10)),
                   60 * ToInt(SubSeq(v, 12, 13)) + ToInt(SubSeq(v, 15, 16)))
    ELSE NaN

\* Series.dt.weekday: Monday = 0 ... Sunday = 6
weekday(ts) == (ts[2] + 6) % 7

\* a week anchored on Sunday instead of Monday
monday_of_week_sunday(ts) ==
    IF isna(ts) THEN NaN
    ELSE Timestamp(ts[2] - ((ts[2] + 7) % 7), 0)

\* one element of monday_of_week(series_dt); .dt.normalize() clears the time
monday_of_week(ts) ==
    IF isna(ts) THEN NaN
    ELSE Timestamp(ts[2] - weekday(ts), 0)

(***************************************************************************)
(* _norm_bol and _find_col_ci                                              *)
(***************************************************************************)
norm_bol_noupper(s) == IF isna(s) THEN NaN ELSE str_strip(s)

_norm_bol(s) == IF isna(s) THEN NaN ELSE str_upper(str_strip(s))

\* " ".join(text.lower().split())
Canonical(text) == str_join(<<" ">>, str_split_ws(str_lower(text)))

RECURSIVE FirstMatch(_, _, _)
FirstMatch(columns, canonical, i) ==
    IF i > Len(columns) THEN NaN
    ELSE IF Canonical(columns[i]) = canonical THEN columns[i]
    ELSE FirstMatch(columns, canonical, i + 1)

find_col_exact(df, target_name) ==
    IF \E i \in 1..Len(df.columns) : df.columns[i] = target_name
    THEN target_name ELSE NaN

\* the first column whose normalized label equals the normalized target, or None
_find_col_ci(df, target_name) == FirstMatch(df.columns, Canonical(target_name), 1)

(***************************************************************************)
(* DataFrame operations used by process_files.                             *)
(***************************************************************************)
HasColumn(df, label) == \E i \in 1..Len(df.columns) : df.columns[i] = label

\* df[label] as the sequence of its cells
Column(df, label) == [i \in 1..Len(df.rows) |-> df.rows[i][label]]

WithColumn(columns, label) ==
    IF \E i \in 1..Len(columns) : columns[i] = label THEN columns
    ELSE Append(columns, label)

\* df[label] = series.  Assigning a series with rows to a frame that has
\* none gives the frame the rows of the series, every other cell missing.
set_column(df, label, series) ==
    LET cols == WithColumn(df.columns, label)
        labels == {cols[i] : i \in 1..Len(cols)}
    IN  IF Len(df.rows) = 0
        THEN [columns |-> cols,
              rows |-> [i \in 1..Len(series) |->
                           [c \in labels |-> IF c = label THEN series[i] ELSE NaN]]]
        ELSE [columns |-> cols,
              rows |-> [i \in 1..Len(df.rows) |->
                           [c \in labels |-> IF c = label THEN series[i]
                                             ELSE df.rows[i][c]]]]

\* df[label] = None: every existing row gets a missing cell
set_scalar(df, label, v) ==
    LET cols == WithColumn(df.columns, label)
        labels == {cols[i] : i \in 1..Len(cols)}
    IN  [columns |-> cols,
         rows |-> [i \in 1..Len(df.rows) |->
                      [c \in labels |-> IF c = label THEN v ELSE df.rows[i][c]]]]

RECURSIVE SeqWithout(_, _)
SeqWithout(s, x) ==
    IF s = <<>> THEN <<>>
    ELSE IF Head(s) = x THEN SeqWithout(Tail(s), x)
    ELSE <<Head(s)>> \o SeqWithout(Tail(s), x)

drop_nothing(df, label) == df

\* df.drop(columns=[label], inplace=True, errors='ignore')
drop_column(df, label) ==
    LET cols == SeqWithout(df.columns, label)
        labels == {cols[i] : i \in 1..Len(cols)}
    IN  [columns |-> cols,
         rows |-> [i \in 1..Len(df.rows) |-> [c \in labels |-> df.rows[i][c]]]]

(***************************************************************************)
(* process_files, stage by stage.                                          *)
(***************************************************************************)
TEMPLATE_COLUMNS == <<
    "Tenant Name", "Shipment Mode", "Agg Date", "Carrier Name",
    "Destination Country", "Drop-off Region", "Region Pickup",
    "Pickup Country", "Tracking Method", "Tracking Type", "Period Date",
    "Destination Country.1", "Final Status Reason", "P44 Shipment ID",
    "Pickup Country.1", "Tracked", "Active Equipment ID", "Attr1 Name",
    "Attr1 Value", "Attr2 Name", "Attr2 Value", "Attr3 Name", "Attr3 Value",
    "Attr4 Name", "Attr4 Value", "Attr5 Name", "Attr5 Value",
    "Bill of Lading", "Destination Name", "Dropoff Arrival Milestone",
    "Dropoff City State", "Dropoff Departure Milestone", "Ft Shipment Error",
    "Has Equipment ID (Yes / No)", "Historical Equipment ID",
    "IS_PING_COMPLETE", "P44 Carrier ID", "Pickup Arrival Milestone",
    "Pickup City State", "Pickup Departure Milestone", "Pickup State",
    "PICKUP_ARRIVAL_STATUS_30_MIN", "Pickup Name", "Tenant ID",
    "Tl Equipment ID Source", "TOTAL_STOPS", "TRACKING_METHOD_RCA"
>>

COUNTRY_MAP ==
    (<<"A","D">> :>
        <<"A","n","d","o","r","r","a">>)
    @@ (<<"B","A">> :>
        <<"B","o","s","n","i","a"," ","a","n","d"," ","H","e","r","z","e","g","o","v","i","n","a">>)
    @@ (<<"B","E">> :>
        <<"B","e","l","g","i","u","m">>)
    @@ (<<"B","G">> :>
        <<"B","u","l","g","a","r","i","a">>)
    @@ (<<"C","Y">> :>
        <<"C","y","p","r","u","s">>)
    @@ (<<"D","E">> :>
        <<"G","e","r","m","a","n","y">>)
    @@ (<<"E","E">> :>
        <<"E","s","t","o","n","i","a">>)
    @@ (<<"E","S">> :>
        <<"S","p","a","i","n">>)
    @@ (<<"F","R">> :>
        <<"F","r","a","n","c","e">>)
    @@ (<<"G","B">> :>
        <<"U","n","i","t","e","d"," ","K","i","n","g","d","o","m"," ","o","f"," ","G","r","e","a","t"," ","B","r","i","t","a","i","n"," ","a","n","d"," ","N","o","r","t","h","e","r","n"," ","I","r","e","l","a","n","d">>)
    @@ (<<"G","R">> :>
        <<"G","r","e","e","c","e">>)
    @@ (<<"H","R">> :>
        <<"C","r","o","a","t","i","a">>)
    @@ (<<"I","T">> :>
        <<"I","t","a","l","y">>)
    @@ (<<"L","T">> :>
        <<"L","i","t","h","u","a","n","i","a">>)
    @@ (<<"N","L">> :>
        <<"N","e","t","h","e","r","l","a","n","d","s">>)
    @@ (<<"P","L">> :>
        <<"P","o","l","a","n","d">>)
    @@ (<<"P","T">> :>
        <<"P","o","r","t","u","g","a","l">>)
    @@ (<<"R","O">> :>
        <<"R","o","m","a","n","i","a">>)
    @@ (<<"R","S">> :>
        <<"S","e","r","b","i","a">>)
    @@ (<<"S","I">> :>
        <<"S","l","o","v","e","n","i","a">>)
    @@ (<<"U","S">> :>
        <<"U","n","i","t","e","d"," ","S","t","a","t","e","s"," ","o","f"," ","A","m","e","r","i","c","a">>)

\* lines 97-102, the frame the loop over TEMPLATE_COLUMNS leaves: its columns
\* are TEMPLATE_COLUMNS; a column main_df has is copied, any other is missing
\* in every row.  `out` starts without rows and takes the rows of main_df
\* with the first column copied from it, so it stays without rows when
\* main_df has none of the template columns.
Project(df) ==
    LET n == IF \E k \in 1..Len(TEMPLATE_COLUMNS) : HasColumn(df, TEMPLATE_COLUMNS[k])
             THEN Len(df.rows) ELSE 0
    IN  [columns |-> TEMPLATE_COLUMNS,
         rows |-> [i \in 1..n |->
                      [c \in {TEMPLATE_COLUMNS[k] : k \in 1..Len(TEMPLATE_COLUMNS)} |->
                          IF HasColumn(df, c) THEN df.rows[i][c] ELSE NaN]]]

\* lines 105-108
CopyIfPresent(o, df, source, target) ==
    IF HasColumn(df, source) THEN set_column(o, target, Column(df, source)) ELSE o

\* Series.map(COUNTRY_MAP).fillna(series), one cell
map_country(v) == IF v \in DOMAIN COUNTRY_MAP THEN COUNTRY_MAP[v] ELSE v

\* lines 123-125: every row gets the ten cells rearrange_attrs_row returns
Realign(o) ==
    [columns |-> o.columns,
     rows |-> [i \in 1..Len(o.rows) |->
                  LET a == rearrange_attrs_row(o.rows[i])
                  IN  [c \in DOMAIN o.rows[i] |->
                          IF c \in DOMAIN a THEN a[c] ELSE o.rows[i][c]]]]

\* lines 128-131
DedupeValues(o) ==
    [columns |-> o.columns,
     rows |-> [i \in 1..Len(o.rows) |->
                  [c \in DOMAIN o.rows[i] |->
                      IF \E k \in 1..5 : AttrValueCol[k] = c
                      THEN dedupe_semicolon_list(o.rows[i][c])
                      ELSE o.rows[i][c]]]]

\* lines 144-146 on the <<key, value>> pairs of the DQ rows: rows without a
\* key dropped, then the first row of every key kept
RECURSIVE build_lookup(_)
build_lookup(pairs) ==
    IF pairs = <<>> THEN <<>>
    ELSE LET init == build_lookup(SubSeq(pairs, 1, Len(pairs) - 1))
             p == pairs[Len(pairs)]
         IN  IF isna(p[1]) \/ \E i \in 1..Len(init) : init[i][1] = p[1]
             THEN init ELSE Append(init, p)

\* Series.map(dq_lookup), one cell: missing when the key is not in the index
map_lookup(lk, key) ==
    IF \E i \in 1..Len(lk) : lk[i][1] = key
    THEN lk[CHOOSE i \in 1..Len(lk) : lk[i][1] = key][2]
    ELSE NaN

mask_everything(v) == TRUE

\* lines 156-158, one cell of 'Ft Shipment Error'
mask_not_identified(v) ==
    str_casefold(str_strip(astype_str(v))) = S_NotIdentified

writable_if_notna(m) == ~isna(m)

\* line 161, one mapped value
writable(m) == ~isna(m) /\ Len(astype_str(m)) > 0

EmptyFrame(columns) == [columns |-> columns, rows |-> <<>>]

\* lines 97-102
ProjectTemplate ==
    /\ pc = "start"
    /\ out' = Project(main_df)
    /\ pc' = "projected"
    /\ UNCHANGED <<main_df, dq_df, keep_audit_col, agg_nats, updated_count,
                   dq_lookup, raised, arg, ret>>

\* lines 105-108
ManualRenames ==
    /\ pc = "projected"
    /\ out' = CopyIfPresent(
                  CopyIfPresent(out, main_df, "Shipment Tracking Type", "Tracking Type"),
                  main_df, "Shipment Tracking Method", "Tracking Method")
    /\ pc' = "renamed"
    /\ UNCHANGED <<main_df, dq_df, keep_audit_col, agg_nats, updated_count,
                   dq_lookup, raised, arg, ret>>

\* lines 111-115
AggDate ==
    /\ pc = "renamed"
    /\ IF HasColumn(out, "Period Date")
       THEN LET pdts == [i \in 1..Len(out.rows) |->
                            to_datetime(out.rows[i]["Period Date"])]
            IN  /\ out' = set_column(out, "Agg Date",
                              [i \in 1..Len(pdts) |-> monday_of_week(pdts[i])])
                /\ agg_nats' = Cardinality({i \in 1..Len(pdts) : isna(pdts[i])})
       ELSE /\ out' = out
            /\ agg_nats' = 0
    /\ pc' = "dated"
    /\ UNCHANGED <<main_df, dq_df, keep_audit_col, updated_count, dq_lookup,
                   raised, arg, ret>>

\* lines 118-120
CountryMapping ==
    /\ pc = "dated"
    /\ out' = [columns |-> out.columns,
               rows |-> [i \in 1..Len(out.rows) |->
                            [c \in DOMAIN out.rows[i] |->
                                IF c \in {"Destination Country", "Pickup Country"}
                                THEN map_country(out.rows[i][c])
                                ELSE out.rows[i][c]]]]
    /\ pc' = "mapped"
    /\ UNCHANGED <<main_df, dq_df, keep_audit_col, agg_nats, updated_count,
                   dq_lookup, raised, arg, ret>>

\* lines 123-125
AttributeRealignment ==
    /\ pc = "mapped"
    /\ out' = Realign(out)
    /\ pc' = "realigned"
    /\ UNCHANGED <<main_df, dq_df, keep_audit_col, agg_nats, updated_count,
                   dq_lookup, raised, arg, ret>>

\* lines 128-131
DedupeAttrValues ==
    /\ pc = "realigned"
    /\ out' = DedupeValues(out)
    /\ pc' = "deduped"
    /\ UNCHANGED <<main_df, dq_df, keep_audit_col, agg_nats, updated_count,
                   dq_lookup, raised, arg, ret>>

\* lines 141-142: dq_df gains the two helper columns
WithHelperColumns(df, bol_col, err_col) ==
    set_column(
        set_column(df, S_BolKey,
                   [i \in 1..Len(df.rows) |-> _norm_bol(df.rows[i][bol_col])]),
        S_TrackingErrorCol,
        [i \in 1..Len(df.rows) |-> df.rows[i][err_col]])

\* lines 154-169 once both frames passed the column checks
ApplyLookup(o, lk, audit) ==
    LET keyed == set_column(o, "__BOL_KEY__",
                     [i \in 1..Len(o.rows) |-> _norm_bol(o.rows[i]["Bill of Lading"])])
        mapped == [i \in 1..Len(keyed.rows) |->
                      map_lookup(lk, keyed.rows[i]["__BOL_KEY__"])]
        idx_to_write == {i \in 1..Len(keyed.rows) :
                            /\ mask_not_identified(keyed.rows[i]["Ft Shipment Error"])
                            /\ writable(mapped[i])}
        written == [columns |-> keyed.columns,
                    rows |-> [i \in 1..Len(keyed.rows) |->
                                 IF i \in idx_to_write
                                 THEN [keyed.rows[i] EXCEPT
                                           !["Ft Shipment Error"] = mapped[i]]
                                 ELSE keyed.rows[i]]]
        audited == IF audit
                   THEN set_column(written, "Tracking Error (from DQ)", mapped)
                   ELSE written
    IN  [frame |-> drop_column(audited, "__BOL_KEY__"),
         count |-> Cardinality(idx_to_write)]

\* lines 134-171: the lookup stage and the return
LookupUpdate ==
    /\ pc = "deduped"
    /\ IF dq_df = <<>>
       THEN /\ pc' = "returned"
            /\ updated_count' = 0
            /\ UNCHANGED <<dq_df, out, dq_lookup, raised>>
       ELSE LET df == dq_df[1]
                bol_col == _find_col_ci(df, S_BillOfLading)
                err_col == _find_col_ci(df, S_TrackingError)
            IN  IF isna(bol_col) \/ isna(err_col)
                THEN /\ pc' = "raised"
                     /\ raised' = "KeyError: Required columns not found in DQ file"
                     /\ UNCHANGED <<dq_df, out, dq_lookup, updated_count>>
                ELSE LET helped == WithHelperColumns(df, bol_col, err_col)
                         lk == build_lookup(
                                   [i \in 1..Len(helped.rows) |->
                                       <<helped.rows[i][S_BolKey],
                                         helped.rows[i][S_TrackingErrorCol]>>])
                     IN  /\ dq_df' = <<helped>>
                         /\ dq_lookup' = lk
                         /\ IF ~HasColumn(out, "Bill of Lading")
                            THEN /\ pc' = "raised"
                                 /\ raised' = "KeyError: 'Bill of Lading' column missing in main dataset."
                                 /\ UNCHANGED <<out, updated_count>>
                            ELSE IF ~HasColumn(out, "Ft Shipment Error")
                            THEN /\ pc' = "raised"
                                 /\ raised' = "KeyError: 'Ft Shipment Error' column missing in main dataset."
                                 /\ UNCHANGED <<out, updated_count>>
                            ELSE LET r == ApplyLookup(out, lk, keep_audit_col)
                                 IN  /\ out' = r.frame
                                     /\ updated_count' = r.count
                                     /\ pc' = "returned"
                                     /\ UNCHANGED raised
    /\ UNCHANGED <<main_df, keep_audit_col, agg_nats, arg, ret>>

\* a direct call of dedupe_semicolon_list
CallDedupe ==
    /\ pc = "call dedupe_semicolon_list"
    /\ ret' = dedupe_semicolon_list(arg)
    /\ pc' = "dedupe_semicolon_list returned"
    /\ UNCHANGED <<main_df, dq_df, keep_audit_col, out, agg_nats, updated_count,
                   dq_lookup, raised, arg>>

\* a direct call of rearrange_attrs_row
CallRearrange ==
    /\ pc = "call rearrange_attrs_row"
    /\ ret' = rearrange_attrs_row(arg)
    /\ pc' = "rearrange_attrs_row returned"
    /\ UNCHANGED <<main_df, dq_df, keep_audit_col, out, agg_nats, updated_count,
                   dq_lookup, raised, arg>>

(***************************************************************************)
(* Inputs.  Cells are text or missing, as pd.read_excel(..., dtype=str)    *)
(* delivers them.                                                          *)
(***************************************************************************)
T_ABC123_trail == <<"A","B","C","-","1","2","3"," ">>
T_abc123 == <<"a","b","c","-","1","2","3">>
T_ABC123_lead == <<" ","A","B","C","-","1","2","3">>
T_Blank == <<" ">>
T_XYZ == <<"X","Y","Z">>
T_bol9 == <<"b","o","l","-","9">>
T_BOL9 == <<"B","O","L","-","9">>
T_ABC123 == <<"A","B","C","-","1","2","3">>
T_abc123_trail == <<"a","b","c","-","1","2","3"," ">>
T_abc123_lead == <<" ","a","b","c","-","1","2","3">>
T_NotIdentified == <<"N","o","t"," ","I","d","e","n","t","i","f","i","e","d">>
T_not_identified_padded == <<" ","n","o","t"," ","i","d","e","n","t","i","f","i","e","d"," ">>
T_NOT_IDENTIFIED == <<"N","O","T"," ","I","D","E","N","T","I","F","I","E","D">>
T_Late == <<"L","a","t","e">>
T_CarrierDelay == <<"C","a","r","r","i","e","r"," ","D","e","l","a","y">>
T_Weather == <<"W","e","a","t","h","e","r">>
T_Empty == <<>>
T_BlankKey == <<"B","l","a","n","k"," ","K","e","y">>
T_NullKey == <<"N","u","l","l"," ","K","e","y">>
H_bill_of_LADING == <<"b","i","l","l"," "," ","o","f"," ","L","A","D","I","N","G">>
H_Bill_Of_Lading_padded == <<" ","B","i","l","l"," ","O","f"," ","L","a","d","i","n","g"," ">>
H_BOL == <<"B","O","L"," ","#">>
H_BillOfLading_joined == <<"B","i","l","l","O","f","L","a","d","i","n","g">>
H_TRACKING_error == <<"T","R","A","C","K","I","N","G"," "," "," ","e","r","r","o","r">>
H_ErrReason == <<"E","r","r"," ","R","e","a","s","o","n">>
H_Carrier == <<"C","a","r","r","i","e","r">>
T_123_123_456 == <<"1","2","3",",","1","2","3",";","4","5","6">>
T_123_456 == <<"1","2","3",";","4","5","6">>
T_a_a == <<" ","a"," ",";","a">>
T_2024_03_14 == <<"2","0","2","4","-","0","3","-","1","4">>
T_2024_03_11 == <<"2","0","2","4","-","0","3","-","1","1">>
T_2023_02_29 == <<"2","0","2","3","-","0","2","-","2","9">>
T_15_30 == <<"1","5",":","3","0">>
T_23_59 == <<"2","3",":","5","9">>
T_na == <<"n","/","a">>
T_po == <<"p","o">>
T_Other == <<"O","t","h","e","r">>
T_DE == <<"D","E">>
T_Acme == <<"A","c","m","e">>
T_GPS == <<"G","P","S">>
T_x == <<"x">>
T_a_b_a == <<"a",","," ","b",";","a">>
T_a_b == <<"a",";","b">>

SeqsOf(S, lo, hi) == UNION {[1..n -> S] : n \in lo..hi}

RECURSIVE Restrict(_, _)
Restrict(s, S) ==
    IF s = <<>> THEN <<>>
    ELSE IF Head(s) \in S THEN <<Head(s)>> \o Restrict(Tail(s), S)
    ELSE Restrict(Tail(s), S)

\* a DQ frame with the two given headers and <<bill of lading, tracking error>> rows
DqFrame(hb, he, pairs) ==
    [columns |-> <<H_Carrier, hb, he>>,
     rows |-> [i \in 1..Len(pairs) |->
                  (H_Carrier :> T_Acme) @@ (hb :> pairs[i][1]) @@ (he :> pairs[i][2])]]

\* -- the lookup family: keys and error values against a DQ frame ------------
LookupMainCells ==
    { <<T_ABC123_trail, T_NotIdentified>>,
      <<T_abc123, T_not_identified_padded>>,
      <<T_ABC123_lead, T_Late>>,
      <<T_abc123, NaN>>,
      <<T_Blank, T_NOT_IDENTIFIED>>,
      <<NaN, T_NotIdentified>>,
      <<T_XYZ, T_NotIdentified>> }

LookupDqCells ==
    { <<T_ABC123, T_CarrierDelay>>,
      <<T_abc123_trail, T_Weather>>,
      <<T_ABC123, T_Empty>>,
      <<T_abc123_lead, NaN>>,
      <<T_Blank, T_BlankKey>>,
      <<NaN, T_NullKey>>,
      <<T_XYZ, T_Weather>> }

LookupMain(cells) ==
    [columns |-> <<"Bill of Lading", "Ft Shipment Error">>,
     rows |-> [i \in 1..Len(cells) |->
                  ("Bill of Lading" :> cells[i][1])
                  @@ ("Ft Shipment Error" :> cells[i][2])]]

\* DQ frames with duplicate, empty, missing and blank entries in every order
CuratedDqCells ==
    { <<<<T_ABC123, T_CarrierDelay>>, <<T_abc123_trail, T_Weather>>>>,
      <<<<T_abc123_trail, T_Weather>>, <<T_ABC123, T_CarrierDelay>>>>,
      <<<<T_ABC123, T_Empty>>, <<T_ABC123, T_CarrierDelay>>>>,
      <<<<T_abc123_lead, NaN>>, <<T_abc123_trail, T_Weather>>>>,
      <<<<T_Blank, T_BlankKey>>, <<T_ABC123, T_CarrierDelay>>>>,
      <<<<T_ABC123, T_Empty>>, <<T_XYZ, T_Weather>>>>,
      <<<<NaN, T_NullKey>>, <<T_Blank, T_BlankKey>>, <<T_ABC123, T_CarrierDelay>>>> }

\* up to MaxRows shipments against the curated DQ frames, and every single
\* shipment against every DQ frame of up to MaxDq rows
LookupDqOptions(cells) ==
    {<<>>} \cup {<<q>> : q \in CuratedDqCells}
    \cup (IF Len(cells) = 1 THEN {<<q>> : q \in SeqsOf(LookupDqCells, 0, MaxDq)}
          ELSE {})

InitLookup ==
    \E cells \in SeqsOf(LookupMainCells, 1, MaxRows), audit \in BOOLEAN :
        \E p \in LookupDqOptions(cells) :
            /\ main_df = LookupMain(cells)
            /\ dq_df = IF p = <<>> THEN <<>>
                       ELSE <<DqFrame(S_BillOfLading, S_TrackingError, p[1])>>
            /\ keep_audit_col = audit

\* -- the schema family: which fields the main frame carries -----------------
SchemaLabels ==
    <<"Extra Field", "Ft Shipment Error", "Tenant Name", "__BOL_KEY__",
      "Period Date", "Shipment Tracking Type", "Bill of Lading">>

SchemaCells ==
    ("Extra Field" :> T_x) @@ ("__BOL_KEY__" :> T_XYZ)
    @@ ("Ft Shipment Error" :> T_NotIdentified)
    @@ ("Tenant Name" :> T_Acme) @@ ("Period Date" :> T_2024_03_14)
    @@ ("Shipment Tracking Type" :> T_GPS) @@ ("Bill of Lading" :> T_abc123)

SchemaMain(S, n) ==
    [columns |-> Restrict(SchemaLabels, S),
     rows |-> [i \in 1..n |-> [c \in S |-> SchemaCells[c]]]]

InitSchema ==
    \E S \in SUBSET {SchemaLabels[i] : i \in 1..Len(SchemaLabels)},
       n \in 0..1,
       dq \in { <<>>,
                <<DqFrame(S_BillOfLading, S_TrackingError, <<<<T_ABC123, T_CarrierDelay>>>>)>>,
                <<DqFrame(H_BOL, H_ErrReason, <<<<T_ABC123, T_CarrierDelay>>>>)>> },
       audit \in BOOLEAN :
        /\ main_df = SchemaMain(S, n)
        /\ dq_df = dq
        /\ keep_audit_col = audit

\* -- the header family: one shipment against DQ frames with varying headers -
ScenarioLabels ==
    <<"Period Date", "Ft Shipment Error", "Bill of Lading", "Attr2 Name", "Attr2 Value">>

ScenarioMain ==
    [columns |-> ScenarioLabels,
     rows |-> << ("Period Date" :> T_2024_03_14)
                 @@ ("Ft Shipment Error" :> T_NotIdentified)
                 @@ ("Bill of Lading" :> T_bol9)
                 @@ ("Attr2 Name" :> S_PO)
                 @@ ("Attr2 Value" :> T_123_123_456) >>]

BolHeaders ==
    {S_BillOfLading, H_bill_of_LADING, H_Bill_Of_Lading_padded, H_BOL,
     H_BillOfLading_joined}

ErrHeaders == {S_TrackingError, H_TRACKING_error, H_ErrReason}

InitHeaders ==
    \E hb \in BolHeaders, he \in ErrHeaders :
        /\ main_df = ScenarioMain
        /\ dq_df = <<DqFrame(hb, he, <<<<T_BOL9, T_CarrierDelay>>>>)>>
        /\ keep_audit_col = FALSE

\* -- the date family ---------------------------------------------------------
Fmt2(n) == <<DigitChars[(n \div 10) + 1], DigitChars[(n % 10) + 1]>>

Fmt4(n) == Fmt2(n \div 100) \o Fmt2(n % 100)

IsoText(y, m, d) == Fmt4(y) \o <<"-">> \o Fmt2(m) \o <<"-">> \o Fmt2(d)

\* every day number of four months of two years, calendar days or not
DateTexts == {IsoText(y, m, d) : y \in {2023, 2024}, m \in {1, 2, 3, 12}, d \in 1..31}

DateTimeTexts ==
    {IsoText(2024, 3, d) \o <<" ">> \o t : d \in 10..17, t \in {T_15_30, T_23_59}}

SingleDateCells == DateTexts \cup DateTimeTexts \cup {T_na, T_Empty, NaN}

SeriesDateCells == {T_2024_03_14, T_2024_03_11, T_2023_02_29, T_na, NaN}

DateMain(cells) ==
    [columns |-> <<"Period Date">>,
     rows |-> [i \in 1..Len(cells) |-> ("Period Date" :> cells[i])]]

InitDates ==
    \E cells \in {<<c>> : c \in SingleDateCells} \cup SeqsOf(SeriesDateCells, 2, MaxRows) :
        /\ main_df = DateMain(cells)
        /\ dq_df = <<>>
        /\ keep_audit_col = FALSE

\* -- the attribute family: pairs in foreign slots, lists with duplicates ----
AttrLabels ==
    <<"Attr1 Name", "Attr1 Value", "Attr4 Name", "Attr4 Value", "Destination Country",
      "Pickup Country">>

InitAttrs ==
    \E n1 \in {S_PO, S_BusinessUnit, T_po, NaN}, n4 \in {S_PO, S_OrderType, T_Other},
       v4 \in {T_a_a, NaN} :
        /\ main_df = [columns |-> AttrLabels,
                      rows |-> << ("Attr1 Name" :> n1) @@ ("Attr1 Value" :> T_123_123_456)
                                  @@ ("Attr4 Name" :> n4) @@ ("Attr4 Value" :> v4)
                                  @@ ("Destination Country" :> T_DE)
                                  @@ ("Pickup Country" :> T_x) >>]
        /\ dq_df = <<>>
        /\ keep_audit_col = FALSE

(***************************************************************************)
(* Specification of process_files.                                         *)
(***************************************************************************)
Init ==
    /\ pc = "start"
    /\ (InitLookup \/ InitSchema \/ InitHeaders \/ InitDates \/ InitAttrs)
    /\ out = EmptyFrame(<<>>)
    /\ agg_nats = 0
    /\ updated_count = 0
    /\ dq_lookup = <<>>
    /\ raised = "none"
    /\ arg = NaN
    /\ ret = NaN

Next ==
    \/ ProjectTemplate
    \/ ManualRenames
    \/ AggDate
    \/ CountryMapping
    \/ AttributeRealignment
    \/ DedupeAttrValues
    \/ LookupUpdate

Spec == Init /\ [][Next]_vars

(***************************************************************************)
(* Specification of the direct helper calls.                               *)
(***************************************************************************)
DedupeChars == {"a", "b", " ", ",", ";"}

DedupeArgs == SeqsOf(DedupeChars, 0, MaxLen) \cup {NaN}

AttrNames ==
    {S_BusinessUnit, S_PO, S_TMSTOPID, S_OrderType, S_GTMSLOAT, T_Other, NaN}

\* the cell of input pair i: tells the pairs apart
AttrValueOfPair == <<<<"v","1">>, <<"v","2">>, <<"v","3">>, <<"v","4">>, <<"v","5">>>>

AttrRow(names) ==
    [c \in AttrCols |->
        LET k == CHOOSE j \in 1..5 : c \in {AttrNameCol[j], AttrValueCol[j]}
        IN  IF c = AttrNameCol[k] THEN names[k] ELSE AttrValueOfPair[k]]

InitFn ==
    /\ \/ /\ pc = "call dedupe_semicolon_list"
          /\ arg \in DedupeArgs
       \/ /\ pc = "call rearrange_attrs_row"
          /\ arg \in {AttrRow(names) : names \in [1..5 -> AttrNames]}
    /\ ret = NaN
    /\ main_df = EmptyFrame(<<>>)
    /\ dq_df = <<>>
    /\ keep_audit_col = FALSE
    /\ out = EmptyFrame(<<>>)
    /\ agg_nats = 0
    /\ updated_count = 0
    /\ dq_lookup = <<>>
    /\ raised = "none"

NextFn == CallDedupe \/ CallRearrange

SpecFn == InitFn /\ [][NextFn]_vars

(***************************************************************************)
(* Vocabulary of the properties.                                           *)
(***************************************************************************)
Terminated == pc \in {"returned", "raised"}

SetOf(s) == {s[i] : i \in 1..Len(s)}

MinOf(S) == CHOOSE x \in S : \A y \in S : x <= y

MaxOf(S) == CHOOSE x \in S : \A y \in S : x >= y

\* the lookup set is provided and both of its columns are found
DqAccepted ==
    /\ dq_df # <<>>
    /\ ~isna(_find_col_ci(dq_df[1], S_BillOfLading))
    /\ ~isna(_find_col_ci(dq_df[1], S_TrackingError))

\* a key as the properties compare it: trimmed and uppercased
TrimUpper(s) == str_upper(str_strip(s))

\* the gate as the properties state it: text that, trimmed and lowercased,
\* reads "not identified"
Gated(v) == ~isna(v) /\ str_lower(str_strip(v)) = S_NotIdentified

\* the Tracking Error of the first row of the lookup set whose key equals the
\* key of `cell`, both trimmed and uppercased; missing when there is none
Resolved(df, cell) ==
    LET hb == _find_col_ci(df, S_BillOfLading)
        he == _find_col_ci(df, S_TrackingError)
        hits == {j \in 1..Len(df.rows) :
                    /\ ~isna(cell)
                    /\ ~isna(df.rows[j][hb])
                    /\ TrimUpper(df.rows[j][hb]) = TrimUpper(cell)}
    IN  IF hits = {} THEN NaN ELSE df.rows[MinOf(hits)][he]

\* non-null and non-empty after string conversion
NonEmpty(v) == ~isna(v) /\ v # <<>>

ErrOf(frame, i) == frame.rows[i]["Ft Shipment Error"]

BolOf(frame, i) == frame.rows[i]["Bill of Lading"]

(***************************************************************************)
(* C1.  The frame process_files returns has exactly the TEMPLATE_COLUMNS   *)
(* fields, in their declared order, when keep_audit_col is false, whatever *)
(* fields the main input has or lacks; '__BOL_KEY__' is never among the    *)
(* returned fields; with keep_audit_col true and a lookup set provided the *)
(* only additional field is 'Tracking Error (from DQ)'.                    *)
(***************************************************************************)
C1_SchemaExact ==
    pc = "returned" =>
        /\ ~HasColumn(out, "__BOL_KEY__")
        /\ ~keep_audit_col => out.columns = TEMPLATE_COLUMNS
        /\ (keep_audit_col /\ dq_df # <<>>) =>
               out.columns = Append(TEMPLATE_COLUMNS, "Tracking Error (from DQ)")
        /\ \A i \in 1..Len(out.rows) : DOMAIN out.rows[i] = SetOf(out.columns)

C1_Witness ==
    /\ pc = "returned"
    /\ dq_df # <<>>
    /\ keep_audit_col
    /\ HasColumn(main_df, "Extra Field")
    /\ ~HasColumn(main_df, "Tenant Name")
    /\ Len(out.rows) > 0
    /\ Len(out.columns) = Len(TEMPLATE_COLUMNS) + 1

(***************************************************************************)
(* C2.  In the lookup stage a row is eligible for overwrite iff its        *)
(* 'Ft Shipment Error', trimmed and lowercased, equals "not identified":   *)
(* every row that is not eligible (a null error value included) leaves the *)
(* stage with the 'Ft Shipment Error' it entered with, even when its key   *)
(* has a non-empty match in the Lookup Index, and every eligible row whose *)
(* key has a non-empty match leaves it with the matched value.             *)
(***************************************************************************)
C2_GateStep ==
    (pc = "deduped" /\ pc' = "returned" /\ dq_df # <<>>) =>
        /\ Len(out'.rows) = Len(out.rows)
        /\ \A i \in 1..Len(out.rows) :
              LET m == Resolved(dq_df[1], BolOf(out, i))
              IN  /\ ~Gated(ErrOf(out, i)) => ErrOf(out', i) = ErrOf(out, i)
                  /\ (Gated(ErrOf(out, i)) /\ NonEmpty(m)) => ErrOf(out', i) = m

\* C2: every step of the lookup stage respects the gate
C2_LookupGate == [][C2_GateStep]_vars

C2_Witness ==
    /\ pc = "returned"
    /\ DqAccepted
    /\ \E i \in 1..Len(out.rows) :
          /\ ErrOf(out, i) = T_Late
          /\ map_lookup(dq_lookup, TrimUpper(BolOf(out, i))) = T_CarrierDelay
    /\ \E i \in 1..Len(out.rows) :
          /\ isna(ErrOf(out, i))
          /\ map_lookup(dq_lookup, TrimUpper(BolOf(out, i))) = T_CarrierDelay

(***************************************************************************)
(* C3.  When a lookup set is provided and the main input lacks a           *)
(* 'Bill of Lading' field or an 'Ft Shipment Error' field, process_files   *)
(* fails with a missing-required-field error naming the absent field and   *)
(* returns no frame.                                                       *)
(***************************************************************************)
C3_MissingFieldRaises ==
    (Terminated /\ DqAccepted
        /\ (~HasColumn(main_df, "Bill of Lading")
            \/ ~HasColumn(main_df, "Ft Shipment Error"))) =>
        /\ pc = "raised"
        /\ raised = IF ~HasColumn(main_df, "Bill of Lading")
                    THEN "KeyError: 'Bill of Lading' column missing in main dataset."
                    ELSE "KeyError: 'Ft Shipment Error' column missing in main dataset."

(***************************************************************************)
(* C4.  End to end: the shipment with Period Date "2024-03-14",            *)
(* Ft Shipment Error "Not Identified", Bill of Lading "bol-9", Attr2 Name  *)
(* "PO", Attr2 Value "123,123;456", against a lookup set with the row      *)
(* ("BOL-9", "Carrier Delay").                                             *)
(***************************************************************************)
\* the row and the statistic the scenario expects
ScenarioResult ==
    /\ pc = "returned"
    /\ Len(out.rows) = 1
    /\ out.rows[1]["Agg Date"] = Timestamp(Ordinal(2024, 3, 11), 0)
    /\ out.rows[1]["Ft Shipment Error"] = T_CarrierDelay
    /\ out.rows[1]["Attr2 Name"] = S_PO
    /\ out.rows[1]["Attr2 Value"] = T_123_456
    /\ updated_count = 1

ScenarioWith(hb, he) ==
    /\ main_df = ScenarioMain
    /\ dq_df # <<>>
    /\ SubSeq(dq_df[1].columns, 1, 3) = <<H_Carrier, hb, he>>

\* C4 as stated: with the lookup columns headed "BOL #" and "Err Reason"
\* process_files returns the expected row and updated_count = 1.
C4_ScenarioAsStated ==
    (Terminated /\ ScenarioWith(H_BOL, H_ErrReason)) => ScenarioResult

\* C4 as amended: with lookup columns headed "Bill of Lading" and
\* "Tracking Error" up to letter case and whitespace, process_files returns
\* the expected row and updated_count = 1; with a column headed "BOL #",
\* "BillOfLading" or "Err Reason" instead it raises the KeyError about the
\* DQ columns and returns nothing.
C4_ScenarioNormalizedHeaders ==
    \A hb \in BolHeaders, he \in ErrHeaders :
        (Terminated /\ ScenarioWith(hb, he)) =>
            IF /\ hb \in {S_BillOfLading, H_bill_of_LADING, H_Bill_Of_Lading_padded}
               /\ he \in {S_TrackingError, H_TRACKING_error}
            THEN ScenarioResult
            ELSE /\ pc = "raised"
                 /\ raised = "KeyError: Required columns not found in DQ file"

C4_Witness ==
    /\ ScenarioWith(H_bill_of_LADING, H_TRACKING_error)
    /\ ScenarioResult

(***************************************************************************)
(* C5.  Lookup keys are compared trimmed and uppercased on both sides:     *)
(* "ABC-123 ", "abc-123" and " ABC-123" are one key, and a main row        *)
(* resolves to the Tracking Error of the first lookup row, in lookup       *)
(* order, whose key equals its own, also when that value is null or empty  *)
(* and a later row of the same key has a non-empty one.                    *)
(***************************************************************************)
C5_KeyNormalization ==
    /\ _norm_bol(T_ABC123_trail) = _norm_bol(T_abc123)
    /\ _norm_bol(T_ABC123_lead) = _norm_bol(T_abc123)
    /\ (pc = "returned" /\ DqAccepted) =>
          /\ \A j \in 1..Len(dq_df[1].rows) :
                LET cell == dq_df[1].rows[j][_find_col_ci(dq_df[1], S_BillOfLading)]
                IN  ~isna(cell) =>
                        map_lookup(dq_lookup, TrimUpper(cell)) = Resolved(dq_df[1], cell)
          /\ \A i \in 1..Len(out.rows) :
                /\ ~isna(BolOf(out, i)) =>
                       map_lookup(dq_lookup, TrimUpper(BolOf(out, i)))
                           = Resolved(dq_df[1], BolOf(out, i))
                /\ keep_audit_col =>
                       out.rows[i]["Tracking Error (from DQ)"]
                           = Resolved(dq_df[1], BolOf(out, i))

C5_Witness ==
    /\ pc = "returned"
    /\ DqAccepted
    /\ keep_audit_col
    /\ Len(dq_df[1].rows) = 2
    /\ dq_df[1].rows[1][S_BillOfLading] = T_ABC123
    /\ dq_df[1].rows[1][S_TrackingError] = T_Empty
    /\ dq_df[1].rows[2][S_BillOfLading] = T_ABC123
    /\ dq_df[1].rows[2][S_TrackingError] = T_CarrierDelay
    /\ Len(out.rows) = 2
    /\ BolOf(out, 1) = T_abc123
    /\ BolOf(out, 2) = T_ABC123_lead
    /\ out.rows[1]["Tracking Error (from DQ)"] = T_Empty
    /\ out.rows[2]["Tracking Error (from DQ)"] = T_Empty

(***************************************************************************)
(* C6.  For every Period Date D that parses, Agg Date is D minus D's       *)
(* zero-based weekday offset (Monday = 0 ... Sunday = 6) at midnight: it   *)
(* is a Monday, at most 6 days before D, and the day of D when D is a      *)
(* Monday.  Every row whose Period Date does not parse has a null Agg Date *)
(* and adds one to the count, so agg_nats is the number of rows with a     *)
(* null Agg Date.                                                          *)
(***************************************************************************)
\* days since the Monday 2024-03-11, modulo the week
DaysPastMonday(ord) == (ord - Ordinal(2024, 3, 11)) % 7

AggDateComputed == pc \in {"dated", "mapped", "realigned", "deduped", "returned", "raised"}

C6_WeekAnchor ==
    AggDateComputed =>
        /\ \A i \in 1..Len(out.rows) :
              LET d == to_datetime(out.rows[i]["Period Date"])
                  a == out.rows[i]["Agg Date"]
              IN  IF isna(d) THEN isna(a)
                  ELSE /\ IsTimestamp(a)
                       /\ a[3] = 0
                       /\ a[2] = d[2] - DaysPastMonday(d[2])
                       /\ DaysPastMonday(a[2]) = 0
                       /\ d[2] - a[2] \in 0..6
                       /\ DaysPastMonday(d[2]) = 0 => a[2] = d[2]
        /\ agg_nats = Cardinality({i \in 1..Len(out.rows) : isna(out.rows[i]["Agg Date"])})

C6_Witness ==
    /\ pc = "returned"
    /\ Len(out.rows) = 2
    /\ agg_nats = 1
    /\ isna(out.rows[1]["Agg Date"])
    /\ out.rows[2]["Period Date"] = T_2024_03_14
    /\ out.rows[2]["Agg Date"] = to_datetime(T_2024_03_11)

(***************************************************************************)
(* C7.  rearrange_attrs_row puts a recognized name only in the slot        *)
(* EXPECTED_ATTR_MAPPING gives it, whatever input index carried it: slot   *)
(* AttrK Name is empty or the one name mapped to AttrK, with AttrK Value   *)
(* from the same input pair; null and unrecognized names appear in no      *)
(* slot; of several pairs with the same recognized name the one with the   *)
(* highest input index is kept.                                            *)
(***************************************************************************)
\* the name EXPECTED_ATTR_MAPPING sends to Attr1 ... Attr5
SlotName == <<S_BusinessUnit, S_PO, S_TMSTOPID, S_OrderType, S_GTMSLOAT>>

C7_SlotsByName ==
    pc = "rearrange_attrs_row returned" =>
        /\ DOMAIN ret = AttrCols
        /\ \A k \in 1..5 :
              LET carriers == {i \in 1..5 : arg[AttrNameCol[i]] = SlotName[k]}
              IN  IF carriers = {}
                  THEN ret[AttrNameCol[k]] = <<>> /\ ret[AttrValueCol[k]] = <<>>
                  ELSE /\ ret[AttrNameCol[k]] = SlotName[k]
                       /\ ret[AttrValueCol[k]] = arg[AttrValueCol[MaxOf(carriers)]]

C7_Witness ==
    /\ pc = "rearrange_attrs_row returned"
    /\ arg["Attr1 Name"] = S_PO
    /\ arg["Attr2 Name"] = T_Other
    /\ arg["Attr3 Name"] = NaN
    /\ arg["Attr4 Name"] = S_PO
    /\ arg["Attr5 Name"] = S_BusinessUnit
    /\ ret["Attr2 Name"] = S_PO
    /\ ret["Attr2 Value"] = arg["Attr4 Value"]
    /\ ret["Attr1 Value"] = arg["Attr5 Value"]
    /\ ret["Attr4 Name"] = <<>>

(***************************************************************************)
(* C8.  dedupe_semicolon_list is idempotent; its result is the ';'-joined  *)
(* sequence of the distinct, trimmed, non-empty pieces of the text split   *)
(* on ',' and ';', in order of first occurrence, so "a, b;a" gives "a;b";  *)
(* a null value is returned unchanged.                                     *)
(***************************************************************************)
\* the positions that bound the pieces of x: its separators and its two ends
Cuts(x) == {0, Len(x) + 1} \cup {i \in 1..Len(x) : x[i] \in {",", ";"}}

Segments(x) ==
    {s \in Cuts(x) \X Cuts(x) :
        s[1] < s[2] /\ \A c \in Cuts(x) : ~(s[1] < c /\ c < s[2])}

PieceAt(x, s) == str_strip(SubSeq(x, s[1] + 1, s[2] - 1))

Pieces(x) == {PieceAt(x, s) : s \in Segments(x)} \ {<<>>}

FirstAt(x, p) == MinOf({s[1] : s \in {t \in Segments(x) : PieceAt(x, t) = p}})

C8_Dedupe ==
    pc = "dedupe_semicolon_list returned" =>
        IF isna(arg) THEN ret = arg
        ELSE LET R == IF ret = <<>> THEN <<>> ELSE str_split(ret, ";")
             IN  /\ SetOf(R) = Pieces(arg)
                 /\ Len(R) = Cardinality(Pieces(arg))
                 /\ \A i, j \in 1..Len(R) :
                       i < j => FirstAt(arg, R[i]) < FirstAt(arg, R[j])
                 /\ dedupe_semicolon_list(ret) = ret
                 /\ arg = T_a_b_a => ret = T_a_b

C8_Witness ==
    /\ pc = "dedupe_semicolon_list returned"
    /\ arg = T_a_b_a
    /\ ret = T_a_b

(***************************************************************************)
(* C9.  With a lookup set, updated_count is the number of rows whose       *)
(* 'Ft Shipment Error' the lookup stage overwrote: the rows that pass the  *)
(* "not identified" gate and whose key resolves to a value that is         *)
(* non-null and non-empty.  Gated rows without a match, or with a null or  *)
(* empty matched value, keep their 'Ft Shipment Error' and are not         *)
(* counted.  Without a lookup set the count is 0 and no 'Ft Shipment       *)
(* Error' changes.                                                         *)
(***************************************************************************)
C9_CountStep ==
    (pc = "deduped" /\ pc' = "returned") =>
        IF dq_df = <<>>
        THEN /\ updated_count' = 0
             /\ out' = out
        ELSE LET m == [i \in 1..Len(out.rows) |-> Resolved(dq_df[1], BolOf(out, i))]
                 W == {i \in 1..Len(out.rows) : Gated(ErrOf(out, i)) /\ NonEmpty(m[i])}
             IN  /\ updated_count' = Cardinality(W)
                 /\ Len(out'.rows) = Len(out.rows)
                 /\ \A i \in 1..Len(out.rows) :
                       ErrOf(out', i) = IF i \in W THEN m[i] ELSE ErrOf(out, i)

\* C9: every step of the lookup stage counts exactly the rows it overwrites
C9_UpdateCount == [][C9_CountStep]_vars

C9_Witness ==
    /\ pc = "returned"
    /\ DqAccepted
    /\ updated_count = 1
    /\ Len(out.rows) = 2
    /\ BolOf(out, 1) = T_XYZ
    /\ ErrOf(out, 1) = T_Weather
    /\ BolOf(out, 2) = T_abc123
    /\ ErrOf(out, 2) = T_not_identified_padded
    /\ Len(dq_df[1].rows) = 2
    /\ dq_df[1].rows[1][S_BillOfLading] = T_ABC123
    /\ dq_df[1].rows[1][S_TrackingError] = T_Empty

(***************************************************************************)
(* C10.  The Lookup Index never holds a null key or an empty key: a lookup *)
(* row whose Bill of Lading is null, or empty once trimmed, is left out,   *)
(* so a main row whose Bill of Lading is null or blank never resolves to a *)
(* lookup value.                                                           *)
(***************************************************************************)
C10_NoEmptyKey ==
    (pc = "returned" /\ DqAccepted) =>
        /\ \A k \in 1..Len(dq_lookup) : NonEmpty(dq_lookup[k][1])
        /\ \A i \in 1..Len(out.rows) :
              (isna(BolOf(out, i)) \/ str_strip(BolOf(out, i)) = <<>>) =>
                  isna(map_lookup(dq_lookup, _norm_bol(BolOf(out, i))))

=============================================================================
